---------------------------- MODULE Spec2Model ----------------------------
(***************************************************************************)
(* A model of the FIA_AgenteIA backend:                                    *)
(*   - utils/rate_limiter.py : RateLimiter (sliding-window quota)          *)
(*   - agents/factory.py     : AgentFactory (startup, status, shutdown)    *)
(*   - app.py                : the HTTP service (startup, routes)          *)
(*   - agents/mcp_agent.py   : MCPAgent (conversation history)             *)
(* SpecRL is the rate limiter, Spec the agents' lifecycle (the factory or   *)
(* the service), SpecMCP one MCPAgent instance; in each specification the  *)
(* variables of the other components stay at their initial value.          *)
(***************************************************************************)
EXTENDS Integers, Sequences, FiniteSets, Bags, TLC

VARIABLES
    \* ---- RateLimiter (utils/rate_limiter.py)
    now,            \* the clock read by time.time()
    requests,       \* self.requests: the quota
    period,         \* self.period: the window length
    clients,        \* self.clients: client id -> list of admitted timestamps
    reqLog,         \* history of the guarded calls and their outcomes
    inflight,       \* wrapped operations that were admitted and have not returned
    \* ---- configuration (config.py) and the owner of the agents' lifecycle
    settings,       \* Settings: which API keys are set
    path,           \* "factory": AgentFactory owns the agents; "service": app.py's agents_dict
    \* ---- AgentFactory (agents/factory.py)
    fPhase,         \* "new", "initializing", "ready", "cleaning", "down"
    agents,         \* self._agents: agent type -> live instance
    initialization_errors,  \* self._initialization_errors: agent type -> message
    task,           \* the _initialize_agent coroutine of each type
    ctask,          \* the cleanup coroutine of each live agent
    cleanupCalls,   \* how often agent.cleanup() was called, per type
    cleanupRaised,  \* whether AgentFactory.cleanup raised to its caller
    liveAtCleanup,  \* the registry as it was when cleanup was called
    \* ---- the HTTP service (app.py)
    appPc,          \* "new", "startup", "rag_initialize", "serving"
    appIdx,         \* the block of initialize_agents that runs next
    agents_dict,    \* agents_dict: agent type -> instance
    attempts,       \* how the construction of each type ended at startup
    printed,        \* what startup printed for each type
    pending,        \* the requests suspended on an agent operation
    lastResponse,   \* the response the service sent last
    \* ---- MCPAgent (agents/mcp_agent.py)
    mcpState,       \* "none", "live" (constructed), "raised" (__init__ raised)
    message_history,\* self.message_history
    calls,          \* the suspended process_message / check_tools_availability
                    \* coroutines, a bag
    turns,          \* how many process_message calls have been made
    returned,       \* what the coroutine that returned last gave its caller
    connections,    \* how many stdio_client connections to the tool server are open
    sessions,       \* how many ClientSession protocol sessions are open
    \* ---- ErrorHandler (utils/error_handler.py)
    wrapperPc,      \* "idle", or "awaiting": wrapper awaits the operation
    handled         \* what the operation did and what wrapper made of it, per call

varsRL == <<now, requests, period, clients, reqLog, inflight>>
varsCfg == <<settings, path>>
varsFactory == <<fPhase, agents, initialization_errors, task, ctask, cleanupCalls,
                 cleanupRaised, liveAtCleanup>>

varsApp == <<appPc, appIdx, agents_dict, attempts, printed, pending, lastResponse>>

varsMCP == <<mcpState, message_history, calls, turns, returned, connections, sessions>>

varsEH == <<wrapperPc, handled>>

vars == <<varsRL, varsCfg, varsFactory, varsApp, varsMCP, varsEH>>

\* what the actions of one component leave alone
notRL == <<varsCfg, varsFactory, varsApp, varsMCP, varsEH>>
notAgents == <<varsRL, varsMCP, varsEH>>
notMCP == <<varsRL, varsCfg, varsFactory, varsApp, varsEH>>
notEH == <<varsRL, varsCfg, varsFactory, varsApp, varsMCP>>

(***************************************************************************)
(* Bounds of the model.                                                    *)
(***************************************************************************)
MaxQuota == 2
MaxPeriod == 2
MaxTime == 4
MaxReqs == 4
MaxPending == 1
MaxCalls == 2
MaxTurns == 2
MaxRounds == 1
MaxGuarded == 2

Min(a, b) == IF a < b THEN a ELSE b

(***************************************************************************)
(* RateLimiter                                                             *)
(***************************************************************************)

\* The X-Forwarded-For headers (a comma separated list, <<>> when the header is
\* absent or empty) and the connection addresses ("none": request.client is None)
\* of the requests the model sends.
Requests ==
    {[forwarded |-> <<"a", "b">>, host |-> "b"],
     [forwarded |-> <<>>, host |-> "a"],
     [forwarded |-> <<>>, host |-> "none"]}

\* RateLimiter._get_client_id
GetClientId(request) ==
    IF request.forwarded # <<>>
    THEN Head(request.forwarded)
    ELSE IF request.host # "none" THEN request.host ELSE "unknown"

\* defaultdict(list): a missing key reads as the empty list
ClientList(cl, client_id) ==
    IF client_id \in DOMAIN cl THEN cl[client_id] ELSE <<>>

KeepsBoundary(req_time, t, p) == req_time >= t - p

\* the filter of the list comprehension: req_time > now - self.period
Fresh(req_time, t, p) == req_time > t - p

\* "Clean old requests"
Prune(ts, t, p) == SelectSeq(ts, LAMBDA req_time : Fresh(req_time, t, p))

\* a limiter whose record is lost when the call is admitted while a wrapped
\* operation is suspended, as with a check and a record in separate steps
IsAllowedLosesRecord(cl, client_id, t, quota, p) ==
    LET kept == Prune(ClientList(cl, client_id), t, p)
        allowed == ~(Len(kept) >= quota)
        stored == IF allowed /\ inflight = 0 THEN Append(kept, t) ELSE kept
    IN  [allowed |-> allowed,
         clients |-> [c \in DOMAIN cl \cup {client_id} |->
                         IF c = client_id THEN stored ELSE cl[c]]]

\* a limiter that records the call it rejects
IsAllowedRecordsRejected(cl, client_id, t, quota, p) ==
    LET kept == Prune(ClientList(cl, client_id), t, p)
    IN  [allowed |-> ~(Len(kept) >= quota),
         clients |-> [c \in DOMAIN cl \cup {client_id} |->
                         IF c = client_id THEN Append(kept, t) ELSE cl[c]]]

\* RateLimiter._is_allowed: the verdict and the new self.clients
IsAllowed(cl, client_id, t, quota, p) ==
    LET kept == Prune(ClientList(cl, client_id), t, p)
        allowed == ~(Len(kept) >= quota)
        stored == IF allowed THEN Append(kept, t) ELSE kept
    IN  [allowed |-> allowed,
         clients |-> [c \in DOMAIN cl \cup {client_id} |->
                         IF c = client_id THEN stored ELSE cl[c]]]

\* RateLimiter.__init__(requests, period)
InitRL ==
    /\ now = 0
    /\ requests \in 1..MaxQuota
    /\ period \in 1..MaxPeriod
    /\ clients = [c \in {} |-> <<>>]
    /\ reqLog = <<>>
    /\ inflight = 0

\* time passes
Tick ==
    /\ now < MaxTime
    /\ now' = now + 1
    /\ UNCHANGED <<requests, period, clients, reqLog, inflight>>
    /\ UNCHANGED notRL

\* RateLimiter.limit.wrapper up to its await: the client id, the verdict, and
\* either the 429 or the start of the wrapped operation
GuardedCall(request) ==
    /\ Len(reqLog) < MaxReqs
    /\ LET client_id == GetClientId(request)
           res == IsAllowed(clients, client_id, now, requests, period)
       IN  /\ clients' = res.clients
           /\ reqLog' = Append(reqLog,
                  [client |-> client_id, time |-> now,
                   status |-> IF res.allowed THEN "proceeds" ELSE "429"])
           /\ inflight' = IF res.allowed THEN inflight + 1 ELSE inflight
    /\ UNCHANGED <<now, requests, period>>
    /\ UNCHANGED notRL

\* the awaited wrapped operation returns
WrappedReturn ==
    /\ inflight > 0
    /\ inflight' = inflight - 1
    /\ UNCHANGED <<now, requests, period, clients, reqLog>>
    /\ UNCHANGED notRL

NextRL ==
    \/ Tick
    \/ \E request \in Requests : GuardedCall(request)
    \/ WrappedReturn

(***************************************************************************)
(* Configuration (config.py) and the agent classes                         *)
(***************************************************************************)
AgentTypes == {"mcp", "workflow", "rag", "externo", "mermaid", "classifica_imagem"}

\* Settings: an API key is set (TRUE) or None/empty (FALSE)
SettingsSet ==
    [firecrawl_api_key : BOOLEAN, openai_api_key : BOOLEAN, pinecone_api_key : BOOLEAN]

\* MCPAgent.__init__: the validation of the two keys
MCPAgentInit(s) ==
    IF ~s.firecrawl_api_key THEN "ValueError: FIRECRAWL_API_KEY"
    ELSE IF ~s.openai_api_key THEN "ValueError: OPENAI_API_KEY"
    ELSE "ok"

\* what agent_class() can do: raise, or return an instance. MCPAgent raises
\* whenever a key is missing; every constructor can fail for a reason of its own.
ConstructorOutcomes(t, s) ==
    IF t = "mcp" /\ MCPAgentInit(s) # "ok" THEN {"raise"} ELSE {"ok", "raise"}

\* hasattr(agent, 'initialize'): RAGAgent is the class whose initialize() the
\* service awaits; the other classes are used right after construction
HasInitialize(t) == t = "rag"

\* hasattr(agent, 'cleanup'): MCPAgent defines none; the others may or may not
CleanupAttr(t) == IF t = "mcp" THEN {FALSE} ELSE BOOLEAN

Restrict(f, S) == [x \in S |-> f[x]]

\* dict update: g's entries over f's
Merge(f, g) ==
    [x \in DOMAIN f \cup DOMAIN g |-> IF x \in DOMAIN g THEN g[x] ELSE f[x]]

NoEntries == [x \in {} |-> "none"]

(***************************************************************************)
(* AgentFactory                                                            *)
(***************************************************************************)
PreconditionWithoutScrapingKey(s, t) ==
    CASE t = "rag" -> s.pinecone_api_key /\ s.openai_api_key
      [] OTHER -> s.openai_api_key

\* the six conditions of initialize_agents
Precondition(s, t) ==
    CASE t \in {"mcp", "workflow"} -> s.firecrawl_api_key /\ s.openai_api_key
      [] t = "rag" -> s.pinecone_api_key /\ s.openai_api_key
      [] OTHER -> s.openai_api_key

MissingKeyErrorsAll(s) ==
    [t \in {x \in AgentTypes : ~Precondition(s, x)} |-> "Missing API keys"]

\* the else branches of initialize_agents: only mcp, workflow and rag have one
MissingKeyErrors(s) ==
    [t \in {x \in {"mcp", "workflow", "rag"} : ~Precondition(s, x)} |->
        IF t = "rag" THEN "Missing Pinecone API key" ELSE "Missing API keys"]

\* a wait that ends with the first task that settles
GatherFirstSettled(st) ==
    [done |-> (DOMAIN st = {}) \/ (\E t \in DOMAIN st : st[t] # "pending"),
     raises |-> FALSE]

GatherFailFast(st) ==
    [done |-> (\A t \in DOMAIN st : st[t] # "pending")
                \/ (\E t \in DOMAIN st : st[t] = "failed"),
     raises |-> \E t \in DOMAIN st : st[t] = "failed"]

\* asyncio.gather(*tasks, return_exceptions=True): returns when every task has
\* settled and raises nothing
Gather(st) ==
    [done |-> \A t \in DOMAIN st : st[t] # "pending",
     raises |-> FALSE]

\* the outcome of an _initialize_agent coroutine as gather sees it: the coroutine
\* catches its own exceptions
InitTaskStatus(pc) ==
    IF pc \in {"scheduled", "initializing"} THEN "pending" ELSE "ok"

\* AgentFactory.initialize_agents up to its await
InitializeAgents ==
    /\ path = "factory"
    /\ fPhase = "new"
    /\ LET scheduled == {t \in AgentTypes : Precondition(settings, t)}
       IN  /\ initialization_errors' =
                  Merge(initialization_errors, MissingKeyErrors(settings))
           /\ task' = [t \in AgentTypes |->
                          IF t \in scheduled THEN "scheduled" ELSE "none"]
           /\ fPhase' = IF scheduled = {} THEN "ready" ELSE "initializing"
    /\ UNCHANGED <<agents, ctask, cleanupCalls, cleanupRaised, liveAtCleanup>>
    /\ UNCHANGED <<varsCfg, varsApp>>
    /\ UNCHANGED notAgents

FactoryRegister(reg, t, has_cleanup) ==
    Merge(reg, [x \in {t} |-> [has_cleanup |-> has_cleanup]])

FactoryFailure(errs, t, detail) ==
    Merge(errs, [x \in {t} |-> detail])

\* AgentFactory._initialize_agent: agent_class() and, for an agent without an
\* initialize attribute, the registration; the except clause records a failure
InitializeAgentConstruct(t) ==
    /\ fPhase = "initializing"
    /\ task[t] = "scheduled"
    /\ \E outcome \in ConstructorOutcomes(t, settings) :
          IF outcome = "raise"
          THEN /\ task' = [task EXCEPT ![t] = "ctor_failed"]
               /\ initialization_errors' =
                      FactoryFailure(initialization_errors, t,
                                     "Failed to initialize: constructor")
               /\ UNCHANGED agents
          ELSE IF HasInitialize(t)
          THEN /\ task' = [task EXCEPT ![t] = "initializing"]
               /\ UNCHANGED <<agents, initialization_errors>>
          ELSE /\ task' = [task EXCEPT ![t] = "registered"]
               /\ \E has_cleanup \in CleanupAttr(t) :
                      agents' = FactoryRegister(agents, t, has_cleanup)
               /\ UNCHANGED initialization_errors
    /\ UNCHANGED <<fPhase, ctask, cleanupCalls, cleanupRaised, liveAtCleanup>>
    /\ UNCHANGED <<varsCfg, varsApp>>
    /\ UNCHANGED notAgents

\* the same with the registration moved before the await
InitializeAgentAwaitRegistersFirst(t) ==
    /\ fPhase = "initializing"
    /\ task[t] = "initializing"
    /\ \E outcome \in {"ok", "raise"}, has_cleanup \in CleanupAttr(t) :
          /\ agents' = FactoryRegister(agents, t, has_cleanup)
          /\ IF outcome = "raise"
             THEN /\ task' = [task EXCEPT ![t] = "init_failed"]
                  /\ initialization_errors' =
                         FactoryFailure(initialization_errors, t,
                                        "Failed to initialize: initialize")
             ELSE /\ task' = [task EXCEPT ![t] = "registered"]
                  /\ UNCHANGED initialization_errors
    /\ UNCHANGED <<fPhase, ctask, cleanupCalls, cleanupRaised, liveAtCleanup>>
    /\ UNCHANGED <<varsCfg, varsApp>>
    /\ UNCHANGED notAgents

\* AgentFactory._initialize_agent after "await agent.initialize()": the
\* registration, or the except clause
InitializeAgentAwait(t) ==
    /\ fPhase = "initializing"
    /\ task[t] = "initializing"
    /\ \E outcome \in {"ok", "raise"} :
          IF outcome = "raise"
          THEN /\ task' = [task EXCEPT ![t] = "init_failed"]
               /\ initialization_errors' =
                      FactoryFailure(initialization_errors, t,
                                     "Failed to initialize: initialize")
               /\ UNCHANGED agents
          ELSE /\ task' = [task EXCEPT ![t] = "registered"]
               /\ \E has_cleanup \in CleanupAttr(t) :
                      agents' = FactoryRegister(agents, t, has_cleanup)
               /\ UNCHANGED initialization_errors
    /\ UNCHANGED <<fPhase, ctask, cleanupCalls, cleanupRaised, liveAtCleanup>>
    /\ UNCHANGED <<varsCfg, varsApp>>
    /\ UNCHANGED notAgents

\* AgentFactory.initialize_agents: gather returns
InitializeAgentsReturn ==
    /\ fPhase = "initializing"
    /\ Gather([t \in {x \in AgentTypes : task[x] # "none"} |->
                  InitTaskStatus(task[t])]).done
    /\ fPhase' = "ready"
    /\ UNCHANGED <<agents, initialization_errors, task, ctask, cleanupCalls,
                   cleanupRaised, liveAtCleanup>>
    /\ UNCHANGED <<varsCfg, varsApp>>
    /\ UNCHANGED notAgents

\* AgentFactory.get_agent
GetAgent(t) == IF t \in DOMAIN agents THEN <<agents[t]>> ELSE <<>>

\* AgentFactory.get_available_agents
GetAvailableAgents == DOMAIN agents

ServiceTypes == {"mcp", "workflow", "rag", "externo", "mermaid"}

AgentStatusFiveTypes(reg, errs) ==
    [t \in ServiceTypes |->
        IF t \in DOMAIN reg THEN [kind |-> "available", message |-> ""]
        ELSE IF t \in DOMAIN errs THEN [kind |-> "error", message |-> errs[t]]
        ELSE [kind |-> "not configured", message |-> ""]]

\* AgentFactory.get_agent_status; "error: <message>" is the pair ("error", message)
AgentStatus(reg, errs) ==
    [t \in AgentTypes |->
        IF t \in DOMAIN reg THEN [kind |-> "available", message |-> ""]
        ELSE IF t \in DOMAIN errs THEN [kind |-> "error", message |-> errs[t]]
        ELSE [kind |-> "not configured", message |-> ""]]

GetAgentStatus == AgentStatus(agents, initialization_errors)

\* the loop of AgentFactory.cleanup: one agent.cleanup() per live agent that has
\* the attribute
CleanupTasks(reg) ==
    [t \in {x \in DOMAIN reg : reg[x].has_cleanup} |-> 1]

\* AgentFactory.cleanup up to its await (or, with nothing to await, to its end)
Cleanup ==
    /\ path = "factory"
    /\ fPhase = "ready"
    /\ LET cleanup_tasks == CleanupTasks(agents)
       IN  /\ cleanupCalls' = [t \in AgentTypes |->
                  cleanupCalls[t]
                    + (IF t \in DOMAIN cleanup_tasks THEN cleanup_tasks[t] ELSE 0)]
           /\ IF DOMAIN cleanup_tasks = {}
              THEN /\ agents' = Restrict(agents, {})
                   /\ fPhase' = "down"
                   /\ UNCHANGED ctask
              ELSE /\ ctask' = [t \in DOMAIN cleanup_tasks |-> "pending"]
                   /\ fPhase' = "cleaning"
                   /\ UNCHANGED agents
    /\ liveAtCleanup' = agents
    /\ UNCHANGED <<initialization_errors, task, cleanupRaised>>
    /\ UNCHANGED <<varsCfg, varsApp>>
    /\ UNCHANGED notAgents

\* one agent's cleanup coroutine finishes or raises
AgentCleanupSettles(t) ==
    /\ fPhase = "cleaning"
    /\ t \in DOMAIN ctask
    /\ ctask[t] = "pending"
    /\ \E outcome \in {"ok", "failed"} : ctask' = [ctask EXCEPT ![t] = outcome]
    /\ UNCHANGED <<fPhase, agents, initialization_errors, task, cleanupCalls,
                   cleanupRaised, liveAtCleanup>>
    /\ UNCHANGED <<varsCfg, varsApp>>
    /\ UNCHANGED notAgents

\* AgentFactory.cleanup after its await: self._agents.clear()
CleanupReturn ==
    /\ fPhase = "cleaning"
    /\ Gather(ctask).done
    /\ IF Gather(ctask).raises
       THEN /\ cleanupRaised' = TRUE
            /\ UNCHANGED agents
       ELSE /\ agents' = Restrict(agents, {})
            /\ UNCHANGED cleanupRaised
    /\ fPhase' = "down"
    /\ UNCHANGED <<initialization_errors, task, ctask, cleanupCalls, liveAtCleanup>>
    /\ UNCHANGED <<varsCfg, varsApp>>
    /\ UNCHANGED notAgents

\* AgentFactory.__init__
InitFactory ==
    /\ fPhase = "new"
    /\ agents = [x \in {} |-> [has_cleanup |-> FALSE]]
    /\ initialization_errors = NoEntries
    /\ task = [t \in AgentTypes |-> "none"]
    /\ ctask = NoEntries
    /\ cleanupCalls = [t \in AgentTypes |-> 0]
    /\ cleanupRaised = FALSE
    /\ liveAtCleanup = [x \in {} |-> [has_cleanup |-> FALSE]]

NextFactory ==
    \/ InitializeAgents
    \/ \E t \in AgentTypes : InitializeAgentConstruct(t)
    \/ \E t \in AgentTypes : InitializeAgentAwait(t)
    \/ InitializeAgentsReturn
    \/ Cleanup
    \/ \E t \in AgentTypes : AgentCleanupSettles(t)
    \/ CleanupReturn

(***************************************************************************)
(* The HTTP service (app.py)                                               *)
(***************************************************************************)
\* the order of the blocks of initialize_agents
StartupOrder == <<"mcp", "workflow", "rag", "externo", "mermaid">>

\* the os.getenv conditions of initialize_agents
ServicePrecondition(s, t) ==
    CASE t \in {"mcp", "workflow"} -> s.firecrawl_api_key /\ s.openai_api_key
      [] t = "rag" -> s.pinecone_api_key /\ s.openai_api_key
      [] OTHER -> s.openai_api_key

\* lifespan: startup begins
Lifespan ==
    /\ path = "service"
    /\ appPc = "new"
    /\ appPc' = "startup"
    /\ UNCHANGED <<appIdx, agents_dict, attempts, printed, pending, lastResponse>>
    /\ UNCHANGED <<varsCfg, varsFactory>>
    /\ UNCHANGED notAgents

ServiceRegister(reg, t) == Merge(reg, [x \in {t} |-> [class |-> t]])

\* one block of initialize_agents: the condition, the constructor inside its
\* try, the registration (for rag: up to "await rag_agent.initialize()")
InitializeAgentsBlock ==
    /\ appPc = "startup"
    /\ appIdx <= Len(StartupOrder)
    /\ LET t == StartupOrder[appIdx]
       IN  IF ~ServicePrecondition(settings, t)
           THEN /\ appIdx' = appIdx + 1
                /\ UNCHANGED <<appPc, agents_dict, attempts, printed>>
           ELSE \E outcome \in ConstructorOutcomes(t, settings) :
                   IF outcome = "raise"
                   THEN /\ attempts' = [attempts EXCEPT ![t] = "ctor_failed"]
                        /\ printed' = [printed EXCEPT ![t] = "error"]
                        /\ appIdx' = appIdx + 1
                        /\ UNCHANGED <<appPc, agents_dict>>
                   ELSE IF t = "rag"
                   THEN /\ appPc' = "rag_initialize"
                        /\ UNCHANGED <<appIdx, agents_dict, attempts, printed>>
                   ELSE /\ agents_dict' = ServiceRegister(agents_dict, t)
                        /\ attempts' = [attempts EXCEPT ![t] = "ok"]
                        /\ printed' = [printed EXCEPT ![t] = "initialized"]
                        /\ appIdx' = appIdx + 1
                        /\ UNCHANGED appPc
    /\ UNCHANGED <<pending, lastResponse>>
    /\ UNCHANGED <<varsCfg, varsFactory>>
    /\ UNCHANGED notAgents

\* the rag block after "await rag_agent.initialize()"
RagInitializeSettles ==
    /\ appPc = "rag_initialize"
    /\ \E outcome \in {"ok", "raise"} :
          IF outcome = "raise"
          THEN /\ attempts' = [attempts EXCEPT !["rag"] = "init_failed"]
               /\ printed' = [printed EXCEPT !["rag"] = "error"]
               /\ UNCHANGED agents_dict
          ELSE /\ agents_dict' = ServiceRegister(agents_dict, "rag")
               /\ attempts' = [attempts EXCEPT !["rag"] = "ok"]
               /\ printed' = [printed EXCEPT !["rag"] = "initialized"]
    /\ appPc' = "startup"
    /\ appIdx' = appIdx + 1
    /\ UNCHANGED <<pending, lastResponse>>
    /\ UNCHANGED <<varsCfg, varsFactory>>
    /\ UNCHANGED notAgents

\* initialize_agents returns and lifespan yields: the service takes requests
StartupReturn ==
    /\ appPc = "startup"
    /\ appIdx > Len(StartupOrder)
    /\ appPc' = "serving"
    /\ UNCHANGED <<appIdx, agents_dict, attempts, printed, pending, lastResponse>>
    /\ UNCHANGED <<varsCfg, varsFactory>>
    /\ UNCHANGED notAgents

\* ---- requests and responses
\* RAGKnowledgeRequest: each optional field is truthy (TRUE) or None/empty (FALSE)
KnowledgeRequests == [url : BOOLEAN, text : BOOLEAN, source_id : BOOLEAN]
NoKnowledgeRequest == [url |-> FALSE, text |-> FALSE, source_id |-> FALSE]

\* ChatRequest.agent_type: any string
ChatAgentTypes == AgentTypes \cup {"other"}

Idle == [route |-> "idle", agent_type |-> "none", kreq |-> NoKnowledgeRequest]

NoResponse ==
    [route |-> "none", agent_type |-> "none", kreq |-> NoKnowledgeRequest,
     http |-> 0, status |-> "none", response |-> "none", names |-> "none",
     echoed |-> "none", outcome |-> "none"]

\* a ChatResponse, sent with HTTP 200
ChatResponse(requested, response, names, agent_type, status, outcome) ==
    [route |-> "chat", agent_type |-> requested, kreq |-> NoKnowledgeRequest,
     http |-> 200, status |-> status, response |-> response, names |-> names,
     echoed |-> agent_type, outcome |-> outcome]

\* an HTTPException(status_code) raised by add_knowledge, as FastAPI sends it
KnowledgeError(kreq, status_code, outcome) ==
    [route |-> "knowledge", agent_type |-> "none", kreq |-> kreq,
     http |-> status_code, status |-> "none", response |-> "detail", names |-> "none",
     echoed |-> "none", outcome |-> outcome]

\* a dict returned by add_knowledge, sent with HTTP 200
KnowledgeResult(kreq, status, outcome) ==
    [route |-> "knowledge", agent_type |-> "none", kreq |-> kreq,
     http |-> 200, status |-> status, response |-> "message", names |-> "none",
     echoed |-> "none", outcome |-> outcome]

ProcessMessageReraises(failed) ==
    IF failed
    THEN [raised |-> TRUE, value |-> "exception", answered |-> FALSE]
    ELSE [raised |-> FALSE, value |-> "answer", answered |-> TRUE]

\* MCPAgent.process_message, its try/except: the answer is returned, and a
\* failure is returned too, as the error string
ProcessMessageReturn(failed) ==
    IF failed
    THEN [raised |-> FALSE, value |-> "error string", answered |-> FALSE]
    ELSE [raised |-> FALSE, value |-> "answer", answered |-> TRUE]

\* what the awaited agent operation of chat_endpoint can do: the agents whose
\* code is not in the repository return an answer or raise
AgentCallOutcomes(t) ==
    IF t = "mcp"
    THEN {ProcessMessageReturn(FALSE), ProcessMessageReturn(TRUE)}
    ELSE {[raised |-> FALSE, value |-> "answer", answered |-> TRUE],
          [raised |-> TRUE, value |-> "exception", answered |-> FALSE]}

\* the agent types chat_endpoint has a branch for
RoutedTypes == {"mcp", "workflow", "rag", "externo", "mermaid"}

ChatLookupAny(reg, agent_type) == agent_type \in RoutedTypes

\* a lookup that stores an entry for the key it misses
DictSetDefault(reg, key) ==
    IF key \in DOMAIN reg THEN reg ELSE Merge(reg, [x \in {key} |-> [class |-> "none"]])

\* the dictionary after agents_dict.get(key): a miss stores nothing
DictGet(reg, key) == reg

\* agents_dict.get(chat_request.agent_type) and "if not agent"
ChatLookup(reg, agent_type) == agent_type \in DOMAIN reg

\* chat_endpoint up to its await
ChatEndpoint(slot, agent_type) ==
    /\ appPc = "serving"
    /\ pending[slot] = Idle
    /\ IF ~ChatLookup(agents_dict, agent_type)
       THEN /\ lastResponse' =
                   ChatResponse(agent_type, "unavailable", agent_type, agent_type,
                                "error", "not invoked")
            /\ UNCHANGED pending
       ELSE IF agent_type \in RoutedTypes
       THEN /\ pending' = [pending EXCEPT ![slot] =
                   [route |-> "chat", agent_type |-> agent_type,
                    kreq |-> NoKnowledgeRequest]]
            /\ UNCHANGED lastResponse
       ELSE /\ lastResponse' =
                   ChatResponse(agent_type, "invalid agent type", "none", agent_type,
                                "error", "not invoked")
            /\ UNCHANGED pending
    /\ agents_dict' = DictGet(agents_dict, agent_type)
    /\ UNCHANGED <<appPc, appIdx, attempts, printed>>
    /\ UNCHANGED <<varsCfg, varsFactory>>
    /\ UNCHANGED notAgents

\* chat_endpoint after its await: the success response of the branch, or the
\* except clause
ChatAgentSettles(slot) ==
    /\ pending[slot].route = "chat"
    /\ LET t == pending[slot].agent_type
       IN  \E result \in AgentCallOutcomes(t) :
              lastResponse' =
                 IF result.raised
                 THEN ChatResponse(t, "error message", "none", t, "error",
                                   IF result.answered THEN "answered" ELSE "failed")
                 ELSE ChatResponse(t, result.value, "none", t, "success",
                                   IF result.answered THEN "answered" ELSE "failed")
    /\ pending' = [pending EXCEPT ![slot] = Idle]
    /\ UNCHANGED <<appPc, appIdx, agents_dict, attempts, printed>>
    /\ UNCHANGED <<varsCfg, varsFactory>>
    /\ UNCHANGED notAgents

\* exceptions: the class and, for an HTTPException, the status code
HTTPException(status_code) == [class |-> "HTTPException", status_code |-> status_code]
OtherException == [class |-> "Exception", status_code |-> 0]

\* the except clause of add_knowledge: "except Exception" catches every
\* exception raised in the try block, fastapi's HTTPException included
AddKnowledgeExcept(exc) == HTTPException(500)

RagAgentAssumed(reg) == TRUE

\* rag_agent = agents_dict.get("rag"), and what "if not rag_agent" tests
RagAgent(reg) == "rag" \in DOMAIN reg

IngestTextFirst(kreq) == IF kreq.text /\ kreq.source_id THEN "add_knowledge_from_text"
                         ELSE "add_knowledge_from_url"


\* add_knowledge up to its await
AddKnowledge(slot, kreq) ==
    /\ appPc = "serving"
    /\ pending[slot] = Idle
    /\ IF ~RagAgent(agents_dict)
       THEN /\ lastResponse' = KnowledgeError(kreq, 503, "not invoked")
            /\ UNCHANGED pending
       ELSE IF kreq.url \/ (kreq.text /\ kreq.source_id)
       THEN /\ pending' = [pending EXCEPT ![slot] =
                   [route |-> "knowledge", agent_type |-> "rag", kreq |-> kreq]]
            /\ UNCHANGED lastResponse
       ELSE /\ lastResponse' =
                   KnowledgeError(kreq, AddKnowledgeExcept(HTTPException(400)).status_code,
                                  "not invoked")
            /\ UNCHANGED pending
    /\ agents_dict' = DictGet(agents_dict, "rag")
    /\ UNCHANGED <<appPc, appIdx, attempts, printed>>
    /\ UNCHANGED <<varsCfg, varsFactory>>
    /\ UNCHANGED notAgents

\* which ingestion operation add_knowledge awaits: the url branch comes first
IngestOperation(kreq) == IF kreq.url THEN "add_knowledge_from_url"
                         ELSE "add_knowledge_from_text"

\* add_knowledge after its await: the ingestion reported success or failure, or
\* it raised
IngestSettles(slot) ==
    /\ pending[slot].route = "knowledge"
    /\ LET kreq == pending[slot].kreq
       IN  \E outcome \in {"true", "false", "raise"} :
              lastResponse' =
                 IF outcome = "raise"
                 THEN KnowledgeError(kreq, AddKnowledgeExcept(OtherException).status_code,
                                     IngestOperation(kreq))
                 ELSE KnowledgeResult(kreq,
                                      IF outcome = "true" THEN "success" ELSE "error",
                                      IngestOperation(kreq))
    /\ pending' = [pending EXCEPT ![slot] = Idle]
    /\ UNCHANGED <<appPc, appIdx, agents_dict, attempts, printed>>
    /\ UNCHANGED <<varsCfg, varsFactory>>
    /\ UNCHANGED notAgents

HealthCheckConfigured ==
    [status |-> "healthy", version |-> "1.5.0",
     agents_available |-> {t \in ServiceTypes : ServicePrecondition(settings, t)}]

\* health_check: the body of GET /health
HealthCheck ==
    [status |-> "healthy", version |-> "1.5.0", agents_available |-> DOMAIN agents_dict]

\* agents_info: the availability flags of GET /agents/info
AgentsInfo == [t \in ServiceTypes |-> t \in DOMAIN agents_dict]

\* a dict returned by health_check or agents_info, sent with HTTP 200
StatusResponse(route) ==
    [route |-> route, agent_type |-> "none", kreq |-> NoKnowledgeRequest,
     http |-> 200, status |-> "none", response |-> "dict", names |-> "none",
     echoed |-> "none", outcome |-> "not invoked"]

\* GET /health: list(agents_dict.keys()) reads the registry
HealthEndpoint ==
    /\ appPc = "serving"
    /\ lastResponse' = [StatusResponse("health") EXCEPT !.status = HealthCheck.status]
    /\ UNCHANGED <<appPc, appIdx, agents_dict, attempts, printed, pending>>
    /\ UNCHANGED <<varsCfg, varsFactory>>
    /\ UNCHANGED notAgents

\* GET /agents/info: the five "in agents_dict" tests read the registry
AgentsInfoEndpoint ==
    /\ appPc = "serving"
    /\ lastResponse' = StatusResponse("agents_info")
    /\ UNCHANGED <<appPc, appIdx, agents_dict, attempts, printed, pending>>
    /\ UNCHANGED <<varsCfg, varsFactory>>
    /\ UNCHANGED notAgents

\* the module level of app.py: agents_dict = {}
InitApp ==
    /\ appPc = "new"
    /\ appIdx = 1
    /\ agents_dict = [x \in {} |-> [class |-> "none"]]
    /\ attempts = [t \in ServiceTypes |-> "none"]
    /\ printed = [t \in ServiceTypes |-> "none"]
    /\ pending = [slot \in 1..MaxPending |-> Idle]
    /\ lastResponse = NoResponse

NextApp ==
    \/ Lifespan
    \/ InitializeAgentsBlock
    \/ RagInitializeSettles
    \/ StartupReturn
    \/ \E slot \in 1..MaxPending, agent_type \in ChatAgentTypes :
          ChatEndpoint(slot, agent_type)
    \/ \E slot \in 1..MaxPending : ChatAgentSettles(slot)
    \/ \E slot \in 1..MaxPending, kreq \in KnowledgeRequests : AddKnowledge(slot, kreq)
    \/ \E slot \in 1..MaxPending : IngestSettles(slot)
    \/ HealthEndpoint
    \/ AgentsInfoEndpoint

(***************************************************************************)
(* MCPAgent                                                                *)
(***************************************************************************)
\* user_message[:175000]
MaxStoredChars == 175000

\* the lengths of the user messages the model sends
UserLengths == {1, MaxStoredChars + 1}

\* A string is its text and its length; the text of the n-th user message is
\* <<"user", n>>, the reply of the model to the call that sent it <<"reply", n>>.
SystemPrompt == [text |-> <<"system prompt", 0>>, len |-> 1]

UserMessage(n, len) == [text |-> <<"user", n>>, len |-> len]

AiMessage(n) == [text |-> <<"reply", n>>, len |-> 1]

TruncateNothing(user_message) == user_message

\* user_message[:175000]: the first min(len, 175000) characters
Truncate(user_message) ==
    [text |-> user_message.text, len |-> Min(user_message.len, MaxStoredChars)]

\* the entry __init__ puts in message_history
SystemEntry == [role |-> "system", content |-> SystemPrompt]

\* an append that drops a reply when the history holds no user message
HistoryAppendFenced(history, entry) ==
    IF /\ entry.role = "assistant"
       /\ \A i \in 1..Len(history) : history[i].role # "user"
    THEN history
    ELSE Append(history, entry)

\* a history whose new entry goes in front of the earlier messages
HistoryInsert(history, entry) == <<history[1], entry>> \o Tail(history)

\* self.message_history.append(entry)
HistoryAppend(history, entry) == Append(history, entry)

UserEntry(user_message) == [role |-> "user", content |-> Truncate(user_message)]

AssistantEntry(ai_message) == [role |-> "assistant", content |-> ai_message]

\* the loop that converts the history for the graph: an entry of another role
\* is left out
MessageClass(role) ==
    CASE role = "system" -> "SystemMessage"
      [] role = "user" -> "HumanMessage"
      [] role = "assistant" -> "AIMessage"
      [] OTHER -> "none"

Converted(msg) ==
    [type |-> MessageClass(msg.role), content |-> msg.content, tool_calls |-> FALSE]

\* a conversion that leaves out the user messages that were never answered,
\* the last message excepted
ConvertHistoryAnswered(h) ==
    LET keep == {i \in 1..Len(h) :
                    \/ h[i].role # "user"
                    \/ i = Len(h)
                    \/ h[i + 1].role = "assistant"}
    IN  [k \in 1..Cardinality(keep) |->
            Converted(h[CHOOSE i \in keep : Cardinality({j \in keep : j <= i}) = k])]

\* a conversion that sends the model the system prompt alone
ConvertHistoryFirst(h) == <<Converted(h[1])>>

RECURSIVE ConvertHistory(_)
ConvertHistory(h) ==
    IF h = <<>> THEN <<>>
    ELSE IF MessageClass(Head(h).role) = "none"
         THEN ConvertHistory(Tail(h))
         ELSE <<Converted(Head(h))>> \o ConvertHistory(Tail(h))

\* the messages the two nodes of the graph append to its state
ModelResponse(n, tool_calls) ==
    [type |-> "AIMessage", content |-> AiMessage(n), tool_calls |-> tool_calls]

ToolMessage(n) ==
    [type |-> "ToolMessage", content |-> [text |-> <<"tool result", n>>, len |-> 1],
     tool_calls |-> FALSE]

ShouldContinueAlways(messages) == "tools"

\* should_continue: "tools" when the last message has tool calls, END otherwise
ShouldContinue(messages) ==
    IF ~messages[Len(messages)].tool_calls THEN "END" ELSE "tools"

\* no text, and the text of the error string the except clause builds
NoText == [text |-> <<"none", 0>>, len |-> 0]

ErrorMessage == [text |-> <<"error message", 0>>, len |-> 1]

NoReturn == [raised |-> FALSE, value |-> "none", answered |-> FALSE, content |-> NoText]

\* check_tools_availability, its try/except: a status dictionary either way
CheckToolsReturn(failed) ==
    IF failed
    THEN [raised |-> FALSE, value |-> "status error", answered |-> FALSE]
    ELSE [raised |-> FALSE, value |-> "status available", answered |-> TRUE]

\* a coroutine suspended on its first await; messages and rounds are the state
\* of the graph while agent.ainvoke runs
NewCall(op, turn) ==
    [op |-> op, pc |-> "connect", turn |-> turn, conn |-> FALSE, session |-> FALSE,
     failed |-> FALSE, messages |-> <<>>, rounds |-> 0, ai_message |-> NoText]

\* agent.ainvoke has returned or raised: the with blocks are left next
LeavesGraph(call, failed) ==
    [call EXCEPT !.failed = failed, !.messages = <<>>, !.rounds = 0,
                 !.pc = "exit_session"]

ReleaseNothing(n) == n

\* entering and leaving an "async with" block: the resource is opened, and
\* closed again
Acquire(n) == n + 1

Release(n) == n - 1

\* the coroutine goes on to its next await
Resumed(cs, call, next) == (cs (-) SetToBag({call})) (+) SetToBag({next})

FinishedNever(cs, call) == cs

\* the coroutine has returned
Finished(cs, call) == cs (-) SetToBag({call})

\* what its caller received: ai_message, or the error string (the dictionary of
\* check_tools_availability carries the error text when it failed)
ReturnValue(call, failed) ==
    LET r == IF call.op = "process_message"
             THEN ProcessMessageReturn(failed)
             ELSE CheckToolsReturn(failed)
    IN  [raised |-> r.raised, value |-> r.value, answered |-> r.answered,
         content |-> IF r.raised THEN NoText
                     ELSE IF failed THEN ErrorMessage
                     ELSE call.ai_message]

\* MCPAgent(): the key validation, then the history with the system prompt
MCPConstruct ==
    /\ mcpState = "none"
    /\ IF MCPAgentInit(settings) = "ok"
       THEN /\ mcpState' = "live"
            /\ message_history' = <<SystemEntry>>
       ELSE /\ mcpState' = "raised"
            /\ UNCHANGED message_history
    /\ UNCHANGED <<calls, turns, returned>>
    /\ UNCHANGED <<connections, sessions>>
    /\ UNCHANGED notMCP

\* process_message up to its first await: the user message is appended and the
\* connection to the tool server is being opened
ProcessMessage(len) ==
    /\ mcpState = "live"
    /\ BagCardinality(calls) < MaxCalls
    /\ turns < MaxTurns
    /\ turns' = turns + 1
    /\ message_history' = HistoryAppend(message_history, UserEntry(UserMessage(turns + 1, len)))
    /\ calls' = calls (+) SetToBag({NewCall("process_message", turns + 1)})
    /\ UNCHANGED <<mcpState, returned>>
    /\ UNCHANGED <<connections, sessions>>
    /\ UNCHANGED notMCP

\* check_tools_availability up to its first await
CheckToolsAvailability ==
    /\ mcpState = "live"
    /\ BagCardinality(calls) < MaxCalls
    /\ calls' = calls (+) SetToBag({NewCall("check_tools_availability", 0)})
    /\ UNCHANGED <<mcpState, message_history, turns, returned>>
    /\ UNCHANGED <<connections, sessions>>
    /\ UNCHANGED notMCP

\* async with stdio_client(...): entered, or it raised and the except clause
\* returns
StdioClientSettles(call) ==
    /\ call.pc = "connect"
    /\ \E ok \in BOOLEAN :
          IF ok
          THEN /\ calls' = Resumed(calls, call,
                                   [call EXCEPT !.conn = TRUE, !.pc = "session"])
               /\ connections' = Acquire(connections)
               /\ UNCHANGED returned
          ELSE /\ calls' = Finished(calls, call)
               /\ returned' = ReturnValue(call, TRUE)
               /\ UNCHANGED connections
    /\ UNCHANGED <<mcpState, message_history, turns, sessions>>
    /\ UNCHANGED notMCP

\* async with ClientSession(read, write): entered, or it raised
ClientSessionSettles(call) ==
    /\ call.pc = "session"
    /\ \E ok \in BOOLEAN :
          /\ calls' = Resumed(calls, call,
                              IF ok
                              THEN [call EXCEPT !.session = TRUE, !.pc = "initialize"]
                              ELSE [call EXCEPT !.failed = TRUE,
                                                !.pc = "exit_connection"])
          /\ sessions' = IF ok THEN Acquire(sessions) ELSE sessions
    /\ UNCHANGED <<mcpState, message_history, turns, returned, connections>>
    /\ UNCHANGED notMCP

\* await session.initialize()
SessionInitializeSettles(call) ==
    /\ call.pc = "initialize"
    /\ \E ok \in BOOLEAN :
          calls' = Resumed(calls, call,
                           IF ok
                           THEN [call EXCEPT !.pc = "load_tools"]
                           ELSE [call EXCEPT !.failed = TRUE, !.pc = "exit_session"])
    /\ UNCHANGED <<mcpState, message_history, turns, returned>>
    /\ UNCHANGED <<connections, sessions>>
    /\ UNCHANGED notMCP

\* await load_mcp_tools(session); process_message then builds the graph, converts
\* the history as it is now and awaits the graph; check_tools_availability
\* returns its dictionary from inside the with blocks
LoadToolsSettles(call) ==
    /\ call.pc = "load_tools"
    /\ \E ok \in BOOLEAN :
          calls' = Resumed(calls, call,
                           IF ~ok
                           THEN [call EXCEPT !.failed = TRUE, !.pc = "exit_session"]
                           ELSE IF call.op = "process_message"
                                THEN [call EXCEPT
                                         !.messages = ConvertHistory(message_history),
                                         !.pc = "agent"]
                                ELSE [call EXCEPT !.pc = "exit_session"])
    /\ UNCHANGED <<mcpState, message_history, turns, returned>>
    /\ UNCHANGED <<connections, sessions>>
    /\ UNCHANGED notMCP

\* the "agent" node: the model answers with tool calls (the graph goes on to
\* "tools"), or without (the graph ends, the reply is appended to the history
\* and the with blocks are left), or the call of the model raises
AgentNode(call) ==
    /\ call.pc = "agent"
    /\ \E outcome \in {"tool calls", "no tool calls", "raises"} :
          LET response == ModelResponse(call.turn, outcome = "tool calls")
              state == Append(call.messages, response)
          IN  /\ outcome = "tool calls" => call.rounds < MaxRounds
              /\ IF outcome = "raises"
                 THEN /\ calls' = Resumed(calls, call, LeavesGraph(call, TRUE))
                      /\ UNCHANGED message_history
                 ELSE IF ShouldContinue(state) = "tools"
                 THEN /\ calls' = Resumed(calls, call,
                                          [call EXCEPT !.messages = state,
                                                       !.pc = "tools"])
                      /\ UNCHANGED message_history
                 ELSE /\ calls' = Resumed(calls, call,
                                          [LeavesGraph(call, FALSE) EXCEPT
                                              !.ai_message = state[Len(state)].content])
                      /\ message_history' =
                             HistoryAppend(message_history,
                                           AssistantEntry(state[Len(state)].content))
    /\ UNCHANGED <<mcpState, turns, returned>>
    /\ UNCHANGED <<connections, sessions>>
    /\ UNCHANGED notMCP

\* the "tools" node, then back to "agent"
ToolsNode(call) ==
    /\ call.pc = "tools"
    /\ \E ok \in BOOLEAN :
          calls' = Resumed(calls, call,
                           IF ok
                           THEN [call EXCEPT
                                    !.messages = Append(@, ToolMessage(call.turn)),
                                    !.rounds = @ + 1, !.pc = "agent"]
                           ELSE LeavesGraph(call, TRUE))
    /\ UNCHANGED <<mcpState, message_history, turns, returned>>
    /\ UNCHANGED <<connections, sessions>>
    /\ UNCHANGED notMCP

\* the ClientSession block is left
ExitSession(call) ==
    /\ call.pc = "exit_session"
    /\ \E raises \in BOOLEAN :
          calls' = Resumed(calls, call,
                           [call EXCEPT !.session = FALSE, !.failed = @ \/ raises,
                                        !.pc = "exit_connection"])
    /\ sessions' = Release(sessions)
    /\ UNCHANGED <<mcpState, message_history, turns, returned, connections>>
    /\ UNCHANGED notMCP

\* the stdio_client block is left and the coroutine returns: the answer, or
\* from the except clause
ExitConnection(call) ==
    /\ call.pc = "exit_connection"
    /\ \E raises \in BOOLEAN :
          /\ calls' = Finished(calls, call)
          /\ returned' = ReturnValue(call, call.failed \/ raises)
    /\ connections' = Release(connections)
    /\ UNCHANGED <<mcpState, message_history, turns, sessions>>
    /\ UNCHANGED notMCP

KeepsLastEntry(h) == <<h[Len(h)]>>

\* [self.message_history[0]]
ResetHistory(h) == <<h[1]>>

\* reset_conversation
ResetConversation ==
    /\ mcpState = "live"
    /\ message_history' = ResetHistory(message_history)
    /\ UNCHANGED <<mcpState, calls, turns, returned>>
    /\ UNCHANGED <<connections, sessions>>
    /\ UNCHANGED notMCP

\* get_conversation_history: a copy of the list; the history stays as it is
GetConversationHistory == message_history

\* no MCPAgent yet
InitMCP ==
    /\ mcpState = "none"
    /\ message_history = <<>>
    /\ calls = EmptyBag
    /\ turns = 0
    /\ returned = NoReturn
    /\ connections = 0
    /\ sessions = 0

NextMCP ==
    \/ MCPConstruct
    \/ \E len \in UserLengths : ProcessMessage(len)
    \/ CheckToolsAvailability
    \/ \E call \in BagToSet(calls) : StdioClientSettles(call)
    \/ \E call \in BagToSet(calls) : ClientSessionSettles(call)
    \/ \E call \in BagToSet(calls) : SessionInitializeSettles(call)
    \/ \E call \in BagToSet(calls) : LoadToolsSettles(call)
    \/ \E call \in BagToSet(calls) : AgentNode(call)
    \/ \E call \in BagToSet(calls) : ToolsNode(call)
    \/ \E call \in BagToSet(calls) : ExitSession(call)
    \/ \E call \in BagToSet(calls) : ExitConnection(call)
    \/ ResetConversation

(***************************************************************************)
(* ErrorHandler                                                            *)
(***************************************************************************)
\* The exception classes the wrapped operation raises in the model, each with
\* its base class: the classes the except clauses name, a subclass of one of
\* them, classes they do not name, and one that is no Exception.
ExceptionClasses ==
    {"HTTPException", "ValueError", "UnicodeDecodeError", "PermissionError",
     "FileNotFoundError", "TimeoutError", "OSError", "KeyError", "RuntimeError",
     "CancelledError"}

BaseClass(class) ==
    CASE class = "UnicodeDecodeError" -> "ValueError"
      [] class \in {"PermissionError", "FileNotFoundError", "TimeoutError"} -> "OSError"
      [] class = "CancelledError" -> "BaseException"
      [] class = "Exception" -> "BaseException"
      [] class = "BaseException" -> "object"
      [] OTHER -> "Exception"

\* isinstance(e, clause): what an except clause tests
RECURSIVE IsInstance(_, _)
IsInstance(class, clause) ==
    IF class = clause THEN TRUE
    ELSE IF class = "object" THEN FALSE
    ELSE IsInstance(BaseClass(class), clause)

\* the messages of the exceptions, str(e)
Details == {"detail a", "detail b"}

\* what the wrapped operation does: it returns a value or raises
Returns(value) ==
    [kind |-> "return", class |-> "none", status_code |-> 0, detail |-> value]

Raises(class, status_code, detail) ==
    [kind |-> "raise", class |-> class, status_code |-> status_code, detail |-> detail]

FuncOutcomes ==
    {Returns(v) : v \in {"result a", "result b"}}
        \cup {Raises("HTTPException", sc, d) : sc \in {401, 404, 422}, d \in Details}
        \cup {Raises(c, 0, d) : c \in ExceptionClasses \ {"HTTPException"}, d \in Details}

\* the except clauses of wrapper, in their order
ExceptClauses ==
    <<"HTTPException", "ValueError", "PermissionError", "FileNotFoundError",
      "TimeoutError", "Exception">>

\* the first clause that matches, 0 when none does
RECURSIVE FirstClause(_, _)
FirstClause(class, i) ==
    IF i > Len(ExceptClauses) THEN 0
    ELSE IF IsInstance(class, ExceptClauses[i]) THEN i
    ELSE FirstClause(class, i + 1)

HandleLeaksDetail(outcome) ==
    IF outcome.kind = "return" THEN outcome
    ELSE Raises("HTTPException", 500, outcome.detail)

\* wrapper: the result of the operation, or what its except clauses raise
Handle(outcome) ==
    IF outcome.kind = "return" THEN outcome
    ELSE LET clause == FirstClause(outcome.class, 1)
         IN  CASE clause = 0 -> outcome
               [] clause = 1 -> outcome
               [] clause = 2 -> Raises("HTTPException", 400, outcome.detail)
               [] clause = 3 -> Raises("HTTPException", 403, "Permission denied")
               [] clause = 4 -> Raises("HTTPException", 404, "Resource not found")
               [] clause = 5 -> Raises("HTTPException", 504, "Request timeout")
               [] OTHER -> Raises("HTTPException", 500, "Internal server error")

\* no guarded operation was called yet
InitEH ==
    /\ wrapperPc = "idle"
    /\ handled = <<>>

\* wrapper is called and awaits func
WrapperCall ==
    /\ wrapperPc = "idle"
    /\ Len(handled) < MaxGuarded
    /\ wrapperPc' = "awaiting"
    /\ UNCHANGED handled
    /\ UNCHANGED notEH

\* func settles and wrapper returns or raises
WrapperSettles(outcome) ==
    /\ wrapperPc = "awaiting"
    /\ wrapperPc' = "idle"
    /\ handled' = Append(handled, [outcome |-> outcome, result |-> Handle(outcome)])
    /\ UNCHANGED notEH

NextEH ==
    \/ WrapperCall
    \/ \E outcome \in FuncOutcomes : WrapperSettles(outcome)

(***************************************************************************)
(* The specifications                                                      *)
(***************************************************************************)
\* the process's configuration: the environment at import time
InitCfg ==
    /\ settings \in SettingsSet
    /\ path \in {"factory", "service"}

\* the agents' side at rest, for the specifications of the other components
ParkedAgents ==
    /\ settings = [firecrawl_api_key |-> TRUE, openai_api_key |-> TRUE,
                   pinecone_api_key |-> TRUE]
    /\ path = "factory"
    /\ InitFactory
    /\ InitApp

\* the rate limiter at rest
ParkedRL ==
    /\ now = 0
    /\ requests = 1
    /\ period = 1
    /\ clients = [c \in {} |-> <<>>]
    /\ reqLog = <<>>
    /\ inflight = 0

\* the rate limiter
InitLimiter == InitRL /\ ParkedAgents /\ InitMCP /\ InitEH

SpecRL == InitLimiter /\ [][NextRL]_vars

\* the agents' lifecycle: the factory, or the service and its routes
Init == ParkedRL /\ InitCfg /\ InitFactory /\ InitApp /\ InitMCP /\ InitEH

Next == NextFactory \/ NextApp

Spec == Init /\ [][Next]_vars

\* one MCPAgent instance and its callers
InitAgent ==
    /\ ParkedRL
    /\ settings \in SettingsSet
    /\ path = "factory"
    /\ InitFactory
    /\ InitApp
    /\ InitMCP
    /\ InitEH

SpecMCP == InitAgent /\ [][NextMCP]_vars

\* callers that do not overlap: process_message is called only when no
\* process_message call is suspended
ProcessMessageAlone(len) ==
    /\ \A call \in BagToSet(calls) : call.op # "process_message"
    /\ ProcessMessage(len)

NextSerial ==
    \/ MCPConstruct
    \/ \E len \in UserLengths : ProcessMessageAlone(len)
    \/ CheckToolsAvailability
    \/ \E call \in BagToSet(calls) : StdioClientSettles(call)
    \/ \E call \in BagToSet(calls) : ClientSessionSettles(call)
    \/ \E call \in BagToSet(calls) : SessionInitializeSettles(call)
    \/ \E call \in BagToSet(calls) : LoadToolsSettles(call)
    \/ \E call \in BagToSet(calls) : AgentNode(call)
    \/ \E call \in BagToSet(calls) : ToolsNode(call)
    \/ \E call \in BagToSet(calls) : ExitSession(call)
    \/ \E call \in BagToSet(calls) : ExitConnection(call)
    \/ ResetConversation

\* one MCPAgent instance whose process_message calls do not overlap
SpecMCPSerial == InitAgent /\ [][NextSerial]_vars

\* a step of one suspended coroutine: the operation it awaits settles
CallStep(call) ==
    \/ StdioClientSettles(call)
    \/ ClientSessionSettles(call)
    \/ SessionInitializeSettles(call)
    \/ LoadToolsSettles(call)
    \/ AgentNode(call)
    \/ ToolsNode(call)
    \/ ExitSession(call)
    \/ ExitConnection(call)

\* every operation a coroutine awaits returns or raises in the end, for the
\* coroutines of every call (0: check_tools_availability)
AwaitsSettle ==
    \A t \in 0..MaxTurns :
        WF_vars(\E call \in BagToSet(calls) : call.turn = t /\ CallStep(call))

\* one MCPAgent instance whose awaited operations all settle, and whose model
\* stops asking for tools after MaxRounds rounds at the latest
SpecMCPLive == InitAgent /\ [][NextMCP]_vars /\ AwaitsSettle

\* the error-mapping guard
InitGuard == ParkedRL /\ ParkedAgents /\ InitMCP /\ InitEH

SpecEH == InitGuard /\ [][NextEH]_vars

(***************************************************************************)
(* C1                                                                      *)
(***************************************************************************)
\* the earlier guarded calls of the same client inside the window that ends at call i
InWindow(i) ==
    {j \in 1..(i - 1) :
        /\ reqLog[j].client = reqLog[i].client
        /\ reqLog[j].time > reqLog[i].time - period}

Admitted(S) == {j \in S : reqLog[j].status = "proceeds"}

\* C1: for one client, a call preceded by fewer than quota calls within the
\* period is admitted; a call preceded by quota admitted calls within the period
\* is rejected with 429; and a call with no call of that client within the last
\* period is admitted again.
C1_QuotaPerPeriod ==
    \A i \in 1..Len(reqLog) :
        /\ Cardinality(InWindow(i)) < requests => reqLog[i].status = "proceeds"
        /\ Cardinality(Admitted(InWindow(i))) >= requests => reqLog[i].status = "429"
        /\ InWindow(i) = {} => reqLog[i].status = "proceeds"

\* a client used its whole quota, was rejected, waited a period and was admitted
C1_Witness ==
    \E i, j, k \in 1..Len(reqLog) :
        /\ requests > 1
        /\ i < j /\ j < k
        /\ reqLog[i].client = reqLog[j].client /\ reqLog[j].client = reqLog[k].client
        /\ Cardinality(Admitted(InWindow(j))) = requests
        /\ i \in InWindow(j)
        /\ reqLog[j].status = "429"
        /\ reqLog[k].time >= reqLog[j].time + period
        /\ InWindow(k) = {}
        /\ reqLog[k].status = "proceeds"

(***************************************************************************)
(* C2, C3, C4: the routes                                                  *)
(***************************************************************************)
NeitherSupplied(kreq) == ~kreq.url /\ ~(kreq.text /\ kreq.source_id)

\* C2: with the retrieval agent registered, a POST /rag/knowledge that supplies
\* neither a url nor both text and source_id is answered with HTTP 400.
C2_InvalidRequestIs400 ==
    (/\ lastResponse.route = "knowledge"
     /\ "rag" \in DOMAIN agents_dict
     /\ NeitherSupplied(lastResponse.kreq))
        => lastResponse.http = 400

\* C3: a POST /chat whose registered agent failed to answer is answered with
\* HTTP 200 and status "error", and status "success" is sent only when the agent
\* produced an answer.
C3_FailureIsErrorStatus ==
    (lastResponse.route = "chat" /\ lastResponse.outcome # "not invoked")
        => /\ lastResponse.http = 200
           /\ lastResponse.outcome = "failed" => lastResponse.status = "error"
           /\ lastResponse.status = "success" => lastResponse.outcome = "answered"

\* C4: a POST /chat for an agent type that is not in the registry is answered
\* with HTTP 200, status "error", the requested type echoed and named in the
\* response, and no agent operation is started for it.
C4_UnavailableAgent ==
    /\ (lastResponse.route = "chat" /\ lastResponse.agent_type \notin DOMAIN agents_dict)
          => /\ lastResponse.http = 200
             /\ lastResponse.status = "error"
             /\ lastResponse.echoed = lastResponse.agent_type
             /\ lastResponse.response = "unavailable"
             /\ lastResponse.names = lastResponse.agent_type
             /\ lastResponse.outcome = "not invoked"
    /\ \A slot \in DOMAIN pending :
          pending[slot].route = "chat" => pending[slot].agent_type \in DOMAIN agents_dict

\* a routed type that startup did not register was asked for, beside live agents
C4_Witness ==
    /\ lastResponse.route = "chat"
    /\ lastResponse.agent_type \in RoutedTypes
    /\ lastResponse.agent_type \notin DOMAIN agents_dict
    /\ DOMAIN agents_dict # {}
    /\ lastResponse.status = "error"

(***************************************************************************)
(* C5 .. C9: the factory and startup                                       *)
(***************************************************************************)
\* C5: in every state of the factory the status report covers the six types,
\* each with one of the three values: "available" exactly for the registered
\* types, else "error: <message>" exactly for the types with a recorded error,
\* else "not configured"; the available types are get_available_agents().
C5_StatusReport ==
    /\ DOMAIN GetAgentStatus = AgentTypes
    /\ \A t \in AgentTypes :
          LET st == GetAgentStatus[t]
          IN  /\ st.kind \in {"available", "error", "not configured"}
              /\ st.kind = "available" <=> t \in DOMAIN agents
              /\ st.kind = "error" <=>
                    (t \notin DOMAIN agents /\ t \in DOMAIN initialization_errors)
              /\ st.kind = "error" => st.message = initialization_errors[t]
              /\ st.kind = "not configured" <=>
                    (t \notin DOMAIN agents /\ t \notin DOMAIN initialization_errors)
    /\ {t \in AgentTypes : GetAgentStatus[t].kind = "available"} = GetAvailableAgents

\* construction tasks are in flight and the report holds all three values
C5_Witness ==
    /\ fPhase = "initializing"
    /\ \E a, b, c \in AgentTypes :
          /\ GetAgentStatus[a].kind = "available"
          /\ GetAgentStatus[b].kind = "error"
          /\ GetAgentStatus[c].kind = "not configured"

InitializeAgentsReturned == fPhase \in {"ready", "cleaning", "down"}

\* C6, as stated: after initialize_agents returns, every type whose precondition
\* fails has the "Missing API keys" error recorded, is not registered and is
\* reported as "error".
C6_MissingKeysAlwaysRecorded ==
    InitializeAgentsReturned =>
        \A t \in AgentTypes :
            ~Precondition(settings, t) =>
                /\ t \notin DOMAIN agents
                /\ t \in DOMAIN initialization_errors
                /\ initialization_errors[t] = "Missing API keys"
                /\ GetAgentStatus[t].kind = "error"

\* C6, amended: after initialize_agents returns, a type whose precondition fails
\* is not registered; mcp and workflow have "Missing API keys" recorded and rag
\* "Missing Pinecone API key" (status "error"); externo, mermaid and
\* classifica_imagem have no error recorded and are "not configured".
C6_MissingKeysAsRecorded ==
    InitializeAgentsReturned =>
        \A t \in AgentTypes :
            ~Precondition(settings, t) =>
                /\ t \notin DOMAIN agents
                /\ t \in {"mcp", "workflow"} =>
                      /\ t \in DOMAIN initialization_errors
                      /\ initialization_errors[t] = "Missing API keys"
                      /\ GetAgentStatus[t].kind = "error"
                /\ t = "rag" =>
                      /\ t \in DOMAIN initialization_errors
                      /\ initialization_errors[t] = "Missing Pinecone API key"
                      /\ GetAgentStatus[t].kind = "error"
                /\ t \in {"externo", "mermaid", "classifica_imagem"} =>
                      /\ t \notin DOMAIN initialization_errors
                      /\ GetAgentStatus[t].kind = "not configured"

\* initialize_agents returned with no language-model key: errors and
\* "not configured" side by side
C6_Witness ==
    /\ fPhase = "ready"
    /\ ~settings.openai_api_key
    /\ GetAgentStatus["mcp"].kind = "error"
    /\ GetAgentStatus["rag"].kind = "error"
    /\ GetAgentStatus["externo"].kind = "not configured"

ExactlyOneKey(s) == s.firecrawl_api_key # s.openai_api_key

C8_FailuresIsolated ==
    /\ fPhase = "ready" =>
          \A t \in AgentTypes :
              Precondition(settings, t) =>
                  /\ task[t] \in {"registered", "ctor_failed", "init_failed"}
                  /\ task[t] = "registered" => t \in DOMAIN agents
                  /\ task[t] # "registered" =>
                        /\ t \notin DOMAIN agents
                        /\ t \in DOMAIN initialization_errors
                        /\ initialization_errors[t] \in
                              {"Failed to initialize: constructor",
                               "Failed to initialize: initialize"}
    /\ \A t \in AgentTypes : task[t] = "init_failed" => t \notin DOMAIN agents
    /\ appPc = "serving" =>
          \A t \in ServiceTypes :
              ServicePrecondition(settings, t) =>
                  /\ attempts[t] \in {"ok", "ctor_failed", "init_failed"}
                  /\ attempts[t] = "ok" => t \in DOMAIN agents_dict
                  /\ attempts[t] # "ok" =>
                        /\ t \notin DOMAIN agents_dict
                        /\ printed[t] = "error"
    /\ \A t \in ServiceTypes : attempts[t] = "init_failed" => t \notin DOMAIN agents_dict

\* the factory's startup returned after one constructor and one initialize()
\* failed, with the other types registered
C8_Witness ==
    /\ fPhase = "ready"
    /\ \E a, b, c \in AgentTypes :
          /\ task[a] = "ctor_failed"
          /\ task[b] = "init_failed"
          /\ task[c] = "registered" /\ c \in DOMAIN agents

\* C9: when cleanup returns, agent.cleanup() was called exactly once on every
\* agent that was live and has the operation (and on no other), every such call
\* has settled, no failure was raised to the caller and the registry is empty.
C9_CleanupClearsRegistry ==
    fPhase = "down" =>
        /\ DOMAIN agents = {}
        /\ ~cleanupRaised
        /\ \A t \in AgentTypes :
              cleanupCalls[t] =
                 IF t \in DOMAIN liveAtCleanup /\ liveAtCleanup[t].has_cleanup
                 THEN 1 ELSE 0
        /\ \A t \in DOMAIN ctask : ctask[t] # "pending"

\* cleanup returned although one agent's cleanup failed and another's succeeded,
\* with a live agent that has no cleanup operation
C9_Witness ==
    /\ fPhase = "down"
    /\ \E a, b \in DOMAIN ctask : ctask[a] = "failed" /\ ctask[b] = "ok"
    /\ \E c \in DOMAIN liveAtCleanup : ~liveAtCleanup[c].has_cleanup
    /\ DOMAIN agents = {}


(***************************************************************************)
(* C10                                                                     *)
(***************************************************************************)
\* C10: whatever process_message calls (answered or failed), resets and
\* get_conversation_history calls were made, the first entry of the history of
\* a constructed agent is the system prompt, and a reset_conversation step
\* leaves exactly that one entry.
C10_HistoryKeepsSystemPrompt ==
    /\ [](mcpState = "live" =>
            /\ Len(message_history) >= 1
            /\ message_history[1] = SystemEntry)
    /\ [][ResetConversation => message_history' = <<SystemEntry>>]_vars

\* a reset while the second of two calls is suspended, the first one answered
\* or failed
C10_Witness ==
    /\ mcpState = "live"
    /\ turns >= 2
    /\ message_history = GetConversationHistory
    /\ message_history = <<SystemEntry>>
    /\ returned.value \in {"answer", "error string"}
    /\ \E call \in BagToSet(calls) :
          /\ call.pc = "agent"
          /\ Len(call.messages) >= 3

(***************************************************************************)
(* C11                                                                     *)
(***************************************************************************)
\* a step in which a process_message coroutine returns to its caller
ProcessMessageReturns(call) ==
    /\ call.op = "process_message"
    /\ calls' = Finished(calls, call)

\* C11: process_message never raises; a call that failed at the connection, the
\* session, the handshake, the tool discovery, the model or the tools hands its
\* caller the error string, and leaves the agent constructed with its history
\* as it was, so that a later call is processed like any other.
C11_FailureIsReturned ==
    /\ [](~returned.raised)
    /\ [][\A call \in BagToSet(calls) :
            ProcessMessageReturns(call) =>
                /\ mcpState' = "live"
                /\ (call.pc = "connect" \/ call.failed) =>
                       /\ returned' = [raised |-> FALSE, value |-> "error string",
                                       answered |-> FALSE, content |-> ErrorMessage]
                       /\ message_history' = message_history]_vars

\* the first call failed and has returned, the second one was answered after that
C11_Witness ==
    /\ calls = EmptyBag
    /\ returned = [raised |-> FALSE, value |-> "answer", answered |-> TRUE,
                   content |-> AiMessage(2)]
    /\ Len(message_history) = 4
    /\ message_history[2].role = "user" /\ message_history[2].content.text = <<"user", 1>>
    /\ message_history[3].role = "user" /\ message_history[3].content.text = <<"user", 2>>
    /\ message_history[4] = AssistantEntry(AiMessage(2))

(***************************************************************************)
(* C12                                                                     *)
(***************************************************************************)
\* the types whose os.getenv condition holds at startup
ConfiguredTypes == {t \in ServiceTypes : ServicePrecondition(settings, t)}

\* startup is over and no constructor or initialize() failed
StartedCleanly ==
    /\ path = "service"
    /\ appPc = "serving"
    /\ \A t \in ServiceTypes : attempts[t] \in {"none", "ok"}

\* C12 as stated: GET /health reports "healthy" and the keys of the registry,
\* and with every credential set the registry holds all six agent types.
C12_HealthUpToSixTypes ==
    /\ HealthCheck.status = "healthy"
    /\ HealthCheck.agents_available = DOMAIN agents_dict
    /\ (StartedCleanly /\ \A t \in AgentTypes : Precondition(settings, t)) =>
          HealthCheck.agents_available = AgentTypes

\* C12, amended: GET /health reports "healthy" and exactly the keys of the
\* registry; the registry is a subset of the five types the service constructs
\* (never classifica_imagem), and after a startup without failures it is the set
\* of the types whose credentials are set, from none to all five.
C12_HealthReportsRegistry ==
    /\ HealthCheck.status = "healthy"
    /\ HealthCheck.agents_available = DOMAIN agents_dict
    /\ HealthCheck.agents_available \subseteq ServiceTypes
    /\ "classifica_imagem" \notin HealthCheck.agents_available
    /\ HealthCheck.agents_available \subseteq ConfiguredTypes
    /\ StartedCleanly => HealthCheck.agents_available = ConfiguredTypes

\* the service is up with every credential set and all five types registered
C12_Witness ==
    /\ StartedCleanly
    /\ \A t \in AgentTypes : Precondition(settings, t)
    /\ HealthCheck.agents_available = ServiceTypes
    /\ Cardinality(HealthCheck.agents_available) = 5

(***************************************************************************)
(* C13                                                                     *)
(***************************************************************************)
\* C13: the guard returns the operation's result unchanged and re-raises an
\* HTTPException unchanged; a ValueError gives 400 with the original message, a
\* PermissionError 403, a FileNotFoundError 404 and a TimeoutError 504 with their
\* fixed messages; any other Exception gives 500 with the fixed generic text and
\* not the original detail. (What is no Exception, a cancellation, passes through.)
C13_ErrorMapping ==
    \A i \in 1..Len(handled) :
        LET o == handled[i].outcome
            r == handled[i].result
        IN  /\ o.kind = "return" => r = o
            /\ o.kind = "raise" =>
                  /\ r.kind = "raise"
                  /\ o.class = "HTTPException" => r = o
                  /\ IsInstance(o.class, "ValueError") =>
                        r = Raises("HTTPException", 400, o.detail)
                  /\ o.class = "PermissionError" =>
                        r = Raises("HTTPException", 403, "Permission denied")
                  /\ o.class = "FileNotFoundError" =>
                        r = Raises("HTTPException", 404, "Resource not found")
                  /\ o.class = "TimeoutError" =>
                        r = Raises("HTTPException", 504, "Request timeout")
                  /\ o.class \in {"OSError", "KeyError", "RuntimeError"} =>
                        /\ r = Raises("HTTPException", 500, "Internal server error")
                        /\ r.detail # o.detail
                  /\ ~IsInstance(o.class, "Exception") => r = o

\* one guarded call raised a subclass of ValueError, another an unclassified
\* exception
C13_Witness ==
    \E i, j \in 1..Len(handled) :
        /\ handled[i].outcome.class = "UnicodeDecodeError"
        /\ handled[i].result.status_code = 400
        /\ handled[j].outcome.class = "RuntimeError"
        /\ handled[j].result.status_code = 500

(***************************************************************************)
(* C14, C15: POST /rag/knowledge                                           *)
(***************************************************************************)
\* C14: without the retrieval agent in the registry, POST /rag/knowledge is
\* answered with HTTP 503 whatever the body holds, and no ingestion operation is
\* awaited.
C14_NoRagIs503 ==
    /\ (lastResponse.route = "knowledge" /\ "rag" \notin DOMAIN agents_dict) =>
          /\ lastResponse.http = 503
          /\ lastResponse.outcome = "not invoked"
    /\ \A slot \in 1..MaxPending :
          pending[slot].route = "knowledge" => "rag" \in DOMAIN agents_dict

\* a complete request was answered with 503
C14_Witness ==
    /\ appPc = "serving"
    /\ "rag" \notin DOMAIN agents_dict
    /\ lastResponse.route = "knowledge"
    /\ lastResponse.kreq.url
    /\ lastResponse.http = 503

BothSupplied(kreq) == kreq.url /\ kreq.text /\ kreq.source_id

Succeeded(response) ==
    response.route = "knowledge" /\ response.http = 200 /\ response.status = "success"

\* C15 as stated: a knowledge request succeeds only if exactly one of url and
\* text + source_id is supplied.
C15_ExactlyOneSupplied ==
    Succeeded(lastResponse) =>
        /\ ~NeitherSupplied(lastResponse.kreq)
        /\ ~BothSupplied(lastResponse.kreq)

\* C15, amended: a knowledge request succeeds only if a url or text + source_id
\* is supplied; a request that supplies both is ingested from the url alone.
C15_AtLeastOneSupplied ==
    /\ Succeeded(lastResponse) => ~NeitherSupplied(lastResponse.kreq)
    /\ (lastResponse.route = "knowledge" /\ NeitherSupplied(lastResponse.kreq)) =>
          /\ lastResponse.http # 200
          /\ lastResponse.outcome = "not invoked"
    /\ (lastResponse.route = "knowledge" /\ lastResponse.kreq.url) =>
          lastResponse.outcome \in {"not invoked", "add_knowledge_from_url"}
    /\ (lastResponse.route = "knowledge" /\ lastResponse.http = 200)
          => lastResponse.outcome =
                IF lastResponse.kreq.url THEN "add_knowledge_from_url"
                ELSE "add_knowledge_from_text"

\* a request with a url, a text and a source_id succeeded
C15_Witness ==
    /\ Succeeded(lastResponse)
    /\ BothSupplied(lastResponse.kreq)
    /\ lastResponse.outcome = "add_knowledge_from_url"

(***************************************************************************)
(* C16                                                                     *)
(***************************************************************************)
\* C16: the user entry process_message stores holds the first min(len, 175000)
\* characters of the message it was passed: exactly 175000 characters of a
\* longer message, and a shorter message unchanged.
C16_StoredContentIsTruncated ==
    /\ [](\A i \in 1..Len(message_history) :
             message_history[i].role = "user" =>
                 message_history[i].content.len <= MaxStoredChars)
    /\ [][\A len \in UserLengths :
            ProcessMessage(len) =>
                LET stored == message_history'[Len(message_history')]
                IN  /\ Len(message_history') = Len(message_history) + 1
                    /\ stored.role = "user"
                    /\ stored.content.text = UserMessage(turns + 1, len).text
                    /\ stored.content.len = IF len > MaxStoredChars THEN MaxStoredChars
                                            ELSE len
                    /\ len <= MaxStoredChars =>
                          stored.content = UserMessage(turns + 1, len)]_vars

\* the history holds a message that was cut to 175000 characters and one that
\* was stored as it came
C16_Witness ==
    \E i, j \in 1..Len(message_history) :
        /\ message_history[i].role = "user"
        /\ message_history[i].content.len = MaxStoredChars
        /\ message_history[j].role = "user"
        /\ message_history[j].content.len < MaxStoredChars

(***************************************************************************)
(* C17                                                                     *)
(***************************************************************************)
\* the last message of the state of the graph
LastMessage(call) == call.messages[Len(call.messages)]

\* C17: the graph is entered at "agent"; from "agent" it goes to "tools" when the
\* model's response has tool calls and ends when it has none; from "tools" it
\* goes back to "agent"; so a run that gives an answer ends right after an agent
\* step without tool calls, and the answer appended and returned is the text of
\* that response.
C17_AgentToolsLoop ==
    [][\A call \in BagToSet(calls) :
         call.op = "process_message" =>
            /\ \A next \in BagToSet(calls') :
                 (next.op = "process_message" /\ next.turn = call.turn /\ next # call) =>
                    /\ (call.pc = "load_tools" /\ ~next.failed) =>
                          /\ next.pc = "agent"
                          /\ next.rounds = 0
                          /\ next.messages = ConvertHistory(message_history)
                    /\ next.pc = "agent" => call.pc \in {"load_tools", "tools"}
                    /\ next.pc = "tools" =>
                          /\ call.pc = "agent"
                          /\ LastMessage(next).type = "AIMessage"
                          /\ LastMessage(next).tool_calls
                    /\ (call.pc = "tools" /\ ~next.failed) =>
                          /\ next.pc = "agent"
                          /\ LastMessage(next).type = "ToolMessage"
                    /\ (call.pc = "agent" /\ ~next.failed) =>
                          \/ next.pc = "tools"
                          \/ /\ next.pc = "exit_session"
                             /\ next.ai_message = ModelResponse(call.turn, FALSE).content
                             /\ message_history' =
                                   Append(message_history,
                                          AssistantEntry(next.ai_message))
                    /\ (call.pc \in {"agent", "tools"} /\ next.pc = "exit_session"
                            /\ ~next.failed) => call.pc = "agent"
                    /\ message_history' # message_history =>
                          (call.pc = "agent" /\ next.pc = "exit_session" /\ ~next.failed)
            /\ (ProcessMessageReturns(call) /\ returned'.answered) =>
                  /\ call.ai_message = AiMessage(call.turn)
                  /\ returned'.content = call.ai_message]_vars

\* the first call was answered, the second one is back at "agent" after a round
\* of tools
C17_Witness ==
    /\ returned.answered
    /\ returned.content = AiMessage(1)
    /\ message_history = <<SystemEntry, UserEntry(UserMessage(1, 1)),
                           AssistantEntry(AiMessage(1)), UserEntry(UserMessage(2, 1))>>
    /\ \E call \in BagToSet(calls) :
          /\ call.turn = 2
          /\ call.pc = "agent"
          /\ call.rounds = 1
          /\ Len(call.messages) = 6

(***************************************************************************)
(* C18                                                                     *)
(***************************************************************************)
\* the process_message call that appended the t-th user message is suspended
InFlight(t) ==
    \E call \in BagToSet(calls) : call.op = "process_message" /\ call.turn = t

CallsAt(pcs) ==
    BagCardinality([call \in {c \in BagToSet(calls) : c.pc \in pcs} |-> calls[call]])

\* the positions inside the stdio_client block, and inside the ClientSession block
InConnection ==
    {"session", "initialize", "load_tools", "agent", "tools", "exit_session",
     "exit_connection"}

InSession == {"initialize", "load_tools", "agent", "tools", "exit_session"}

\* C19: every process_message and check_tools_availability call opens a
\* connection and a session of its own and holds them only while it is inside the
\* with blocks; whichever way the call ends, both are closed when it returns, so
\* nothing is open on an agent that has no call in progress.
C19_SessionsAreScoped ==
    /\ connections = CallsAt(InConnection)
    /\ sessions = CallsAt(InSession)
    /\ \A call \in BagToSet(calls) :
          /\ call.conn <=> call.pc \in InConnection
          /\ call.session <=> call.pc \in InSession
    /\ calls = EmptyBag => (connections = 0 /\ sessions = 0)

\* nothing is open after a call that was answered, one that failed and a
\* check_tools_availability
C19_Witness ==
    /\ calls = EmptyBag
    /\ connections = 0
    /\ sessions = 0
    /\ returned.value = "status available"
    /\ Len(message_history) = 4
    /\ message_history[3].role = "user"
    /\ message_history[4].role = "assistant"

(***************************************************************************)
(* C20                                                                     *)
(***************************************************************************)
\* the entries of the t-th call: its user message, and its reply
IsUserOf(entry, t) == entry.role = "user" /\ entry.content.text = <<"user", t>>

IsReplyOf(entry, t) == entry.role = "assistant" /\ entry.content = AiMessage(t)

\* the user messages are in the history in the order their calls arrived
UsersInArrivalOrder ==
    \A i, j \in 1..Len(message_history) :
        (/\ i < j
         /\ message_history[i].role = "user"
         /\ message_history[j].role = "user")
            => message_history[i].content.text[2] < message_history[j].content.text[2]

\* C20 as stated: when process_message calls do not overlap, the user messages
\* are in arrival order and the reply of every answered call is right after that
\* call's own user message.
C20_RepliesFollowTheirMessage ==
    /\ UsersInArrivalOrder
    /\ \A i \in 1..Len(message_history), t \in 1..MaxTurns :
          IsReplyOf(message_history[i], t) =>
              (i > 1 /\ IsUserOf(message_history[i - 1], t))

\* C20, amended: when process_message calls do not overlap, the user messages
\* are in arrival order, a reply is followed by nothing but the user message of
\* a later call, and the reply of every answered call is right after that call's
\* own user message unless reset_conversation ran while the call was suspended;
\* then the reply is right after the system prompt.
C20_RepliesFollowUnlessReset ==
    /\ [](/\ UsersInArrivalOrder
          /\ \A i \in 1..Len(message_history), t \in 1..MaxTurns :
                IsReplyOf(message_history[i], t) =>
                    /\ i > 1
                    /\ IsUserOf(message_history[i - 1], t) \/ i = 2
                    /\ i < Len(message_history) =>
                          /\ message_history[i + 1].role = "user"
                          /\ message_history[i + 1].content.text[2] > t)
    /\ [][\A call \in BagToSet(calls) :
            (/\ call.op = "process_message"
             /\ call.pc = "agent"
             /\ Len(message_history') = Len(message_history) + 1
             /\ \E i \in 1..Len(message_history) :
                   IsUserOf(message_history[i], call.turn))
                => /\ IsUserOf(message_history[Len(message_history)], call.turn)
                   /\ IsReplyOf(message_history'[Len(message_history')], call.turn)]_vars

\* two calls, one after the other, both answered
C20_Witness ==
    /\ calls = EmptyBag
    /\ Len(message_history) = 5
    /\ IsUserOf(message_history[2], 1)
    /\ IsReplyOf(message_history[3], 1)
    /\ IsUserOf(message_history[4], 2)
    /\ IsReplyOf(message_history[5], 2)

(***************************************************************************)
(* C21                                                                     *)
(***************************************************************************)
\* the process_message call of turn t, in a bag of coroutines
CallOf(cs, t) == {c \in BagToSet(cs) : c.op = "process_message" /\ c.turn = t}

\* the user message of turn t is in the history and its reply is not
Pending(t) ==
    /\ \E i \in 1..Len(message_history) : IsUserOf(message_history[i], t)
    /\ \A i \in 1..Len(message_history) : ~IsReplyOf(message_history[i], t)

\* C21: overlapping process_message calls are not serialized. A call that
\* arrives while the last entry of the history is an unanswered user message
\* puts its own user message right behind it (two adjacent user entries); a
\* reply is appended at the end of the history whatever the last entry is, so
\* behind another call's entry it does not follow the message it answers; and
\* the sequence a call sends to the model is the whole shared history as it is
\* then, the pending user message of every other call in flight included.
C21_CallsAreNotSerialized ==
    /\ [][(/\ turns' = turns + 1
           /\ message_history[Len(message_history)].role = "user")
             => /\ Len(message_history') = Len(message_history) + 1
                /\ message_history'[Len(message_history)].role = "user"
                /\ IsUserOf(message_history'[Len(message_history')], turns')]_vars
    /\ [][\A t \in 1..MaxTurns :
            (/\ \E c \in CallOf(calls, t) : c.pc = "agent"
             /\ \E c \in CallOf(calls', t) : c.pc = "exit_session" /\ ~c.failed
             /\ ~IsUserOf(message_history[Len(message_history)], t))
                => /\ message_history' =
                          Append(message_history, AssistantEntry(AiMessage(t)))
                   /\ ~IsUserOf(message_history'[Len(message_history') - 1], t)]_vars
    /\ [][\A t \in 1..MaxTurns :
            (/\ \E c \in CallOf(calls, t) : c.pc = "load_tools"
             /\ \E c \in CallOf(calls', t) : c.pc = "agent")
                => \A c \in CallOf(calls', t) :
                      /\ Len(c.messages) = Len(message_history)
                      /\ \A i \in 1..Len(message_history) :
                            /\ c.messages[i].content = message_history[i].content
                            /\ c.messages[i].type =
                                   MessageClass(message_history[i].role)
                      /\ \A u \in 1..MaxTurns :
                            (u # t /\ CallOf(calls, u) # {} /\ Pending(u))
                               => \E i \in 1..Len(c.messages) :
                                     /\ c.messages[i].type = "HumanMessage"
                                     /\ c.messages[i].content.text = <<"user", u>>]_vars

\* two calls in flight: the second has sent the model a sequence holding the
\* first call's pending user message, the first has answered since; the two user
\* entries are adjacent and the reply to the first is behind the second
C21_Witness ==
    /\ Len(message_history) = 4
    /\ IsUserOf(message_history[2], 1)
    /\ IsUserOf(message_history[3], 2)
    /\ IsReplyOf(message_history[4], 1)
    /\ \E c \in CallOf(calls, 2) :
          /\ c.pc = "agent"
          /\ Len(c.messages) = 3
          /\ c.messages[2].type = "HumanMessage"
          /\ c.messages[2].content.text = <<"user", 1>>
          /\ c.messages[3].content.text = <<"user", 2>>

(***************************************************************************)
(* C22                                                                     *)
(***************************************************************************)
\* C22: once startup has completed, no step of a POST /chat, GET /health,
\* GET /agents/info or POST /rag/knowledge request, whether it succeeds or
\* fails, changes the registry: its agent types and the instance bound to each
\* stay what startup registered.
C22_RegistryFixedAfterStartup ==
    /\ [][appPc = "serving" => agents_dict' = agents_dict]_vars
    /\ [](appPc = "serving" =>
            /\ DOMAIN agents_dict = {t \in ServiceTypes : attempts[t] = "ok"}
            /\ \A t \in DOMAIN agents_dict : agents_dict[t] = [class |-> t])

\* the service is up without "rag" and has answered a chat request for "rag",
\* a type the lookup missed
C22_Witness ==
    /\ appPc = "serving"
    /\ DOMAIN agents_dict = ServiceTypes \ {"rag"}
    /\ lastResponse.route = "chat"
    /\ lastResponse.agent_type = "rag"
    /\ lastResponse.response = "unavailable"

(***************************************************************************)
(* C23                                                                     *)
(***************************************************************************)
\* the construction tasks initialize_agents scheduled, and those still running
ScheduledTasks == {t \in AgentTypes : task[t] # "none"}

RunningTasks == {t \in AgentTypes : task[t] \in {"scheduled", "initializing"}}

\* C23: initialize_agents and cleanup are barriers without short-circuit.
\* initialize_agents returns only in a step where no scheduled construction task
\* is still running, each one registered or recorded as failed, and does not
\* return before that even if a task has failed; cleanup clears the registry
\* only in a step where no scheduled agent.cleanup() is pending, and until then
\* the registry is what it was when cleanup was called, even if a cleanup has
\* failed.
C23_FanOutBarrier ==
    /\ [][(fPhase = "initializing" /\ fPhase' # "initializing") =>
             /\ RunningTasks = {}
             /\ \A t \in ScheduledTasks :
                   \/ task[t] = "registered" /\ t \in DOMAIN agents
                   \/ /\ task[t] \in {"ctor_failed", "init_failed"}
                      /\ t \in DOMAIN initialization_errors
                      /\ t \notin DOMAIN agents]_vars
    /\ [](RunningTasks # {} => fPhase = "initializing")
    /\ [][(fPhase = "cleaning" /\ (fPhase' # "cleaning" \/ agents' # agents)) =>
             /\ \A t \in DOMAIN ctask : ctask[t] # "pending"
             /\ fPhase' = "down"
             /\ DOMAIN agents' = {}]_vars
    /\ []((\E t \in DOMAIN ctask : ctask[t] = "pending") =>
             /\ fPhase = "cleaning"
             /\ agents = liveAtCleanup)

\* a construction task failed during startup, and cleanup is waiting for one
\* agent's cleanup after another's has failed, the registry still full
C23_Witness ==
    /\ fPhase = "cleaning"
    /\ \E t \in AgentTypes : task[t] = "ctor_failed"
    /\ \E a, b \in DOMAIN ctask : ctask[a] = "failed" /\ ctask[b] = "pending"
    /\ DOMAIN agents # {}
    /\ agents = liveAtCleanup

(***************************************************************************)
(* C24                                                                     *)
(***************************************************************************)
\* the guarded call this step logs
LoggedCall == reqLog'[Len(reqLog')]

\* C24: a rejected call is not recorded. In the step that rejects a call the
\* client's stored list becomes its old list without the stale timestamps and
\* nothing else; no client ever has more stored timestamps than the quota; every
\* stored timestamp is the time of an admitted call of that client; and a call
\* with fewer than quota admitted calls of its client in the window is admitted,
\* however many rejected calls the window holds.
C24_RejectedIsNotRecorded ==
    /\ [][(Len(reqLog') = Len(reqLog) + 1 /\ LoggedCall.status = "429") =>
             LET c == LoggedCall.client
                 old == IF c \in DOMAIN clients THEN clients[c] ELSE <<>>
             IN  /\ c \in DOMAIN clients'
                 /\ clients'[c] =
                        SelectSeq(old, LAMBDA req_time : req_time > now - period)
                 /\ Len(clients'[c]) <= Len(old)
                 /\ \A d \in DOMAIN clients : d # c => clients'[d] = clients[d]]_vars
    /\ [](\A c \in DOMAIN clients :
             /\ Len(clients[c]) <= requests
             /\ \A k \in 1..Len(clients[c]) :
                   \E i \in 1..Len(reqLog) :
                      /\ reqLog[i].client = c
                      /\ reqLog[i].time = clients[c][k]
                      /\ reqLog[i].status = "proceeds")
    /\ [](\A i \in 1..Len(reqLog) :
             Cardinality(Admitted(InWindow(i))) < requests
                => reqLog[i].status = "proceeds")

\* a client was rejected while its list was full, and admitted as soon as its
\* admitted calls had left the window, the rejected one still inside it
C24_Witness ==
    \E j, k \in 1..Len(reqLog) :
        /\ j < k
        /\ reqLog[j].client = reqLog[k].client
        /\ reqLog[j].status = "429"
        /\ j \in InWindow(k)
        /\ Admitted(InWindow(k)) = {}
        /\ reqLog[k].status = "proceeds"
        /\ Len(clients[reqLog[k].client]) = 1

(***************************************************************************)
(* C25                                                                     *)
(***************************************************************************)
\* the admitted calls of client c in the window of length period that ends at
\* time e
AdmittedIn(c, e) ==
    {i \in 1..Len(reqLog) :
        /\ reqLog[i].client = c
        /\ reqLog[i].status = "proceeds"
        /\ reqLog[i].time > e - period
        /\ reqLog[i].time <= e}

\* C25: the verdict and the record of a guarded call are one step, so whatever
\* wrapped operations are suspended and however the guarded calls interleave
\* with their returns, no window of length period holds more than quota
\* admitted calls of one client, and the wrapped operations in flight are never
\* more than the calls admitted.
C25_AtMostQuotaPerWindow ==
    /\ \A i \in 1..Len(reqLog), e \in 0..MaxTime :
          Cardinality(AdmittedIn(reqLog[i].client, e)) <= requests
    /\ inflight <= Cardinality({i \in 1..Len(reqLog) : reqLog[i].status = "proceeds"})
    /\ inflight >= 0

\* one client sent three calls at the same instant with a quota of two: the
\* first two were admitted and are both still suspended in the wrapped
\* operation, the third was rejected
C25_Witness ==
    /\ requests = 2
    /\ inflight = 2
    /\ \E i, j, k \in 1..Len(reqLog) :
          /\ i < j /\ j < k
          /\ reqLog[i].client = reqLog[j].client /\ reqLog[j].client = reqLog[k].client
          /\ reqLog[i].time = reqLog[j].time /\ reqLog[j].time = reqLog[k].time
          /\ reqLog[i].status = "proceeds"
          /\ reqLog[j].status = "proceeds"
          /\ reqLog[k].status = "429"

(***************************************************************************)
(* C26                                                                     *)
(***************************************************************************)
\* the reply to the call of turn t is in the history
ReplyStored(h, t) == \E i \in 1..Len(h) : IsReplyOf(h[i], t)

UserStored(h, t) == \E i \in 1..Len(h) : IsUserOf(h[i], t)

\* a step in which the process_message call fails: an awaited operation, a node
\* of the graph or the exit of a with block raises
Fails(call) ==
    /\ call.op = "process_message"
    /\ ~call.failed
    /\ \/ calls' = Finished(calls, call) /\ returned'.value = "error string"
       \/ \E next \in CallOf(calls', call.turn) : next.failed

\* C26 as stated: a process_message call that hands its caller the error string
\* has added its user message to the history and no assistant entry.
C26_FailureAddsNoReply ==
    [][\A call \in BagToSet(calls) :
          (ProcessMessageReturns(call) /\ returned'.value = "error string")
             => ~ReplyStored(message_history', call.turn)]_vars

\* C26, amended: a failure rolls nothing back and adds nothing. The step in
\* which a call fails leaves the history as it is; a user message leaves the
\* history only by reset_conversation; a call that fails before its graph has
\* answered hands its caller the error string with no assistant entry of its
\* own in the history, while a call that fails leaving the session or the
\* connection, after it stored its reply, hands its caller the error string
\* with the reply left in the history; and the sequence a later call sends to
\* the model holds every user message that is in the history then, those of
\* failed calls included.
C26_FailureKeepsHistory ==
    /\ [][\A call \in BagToSet(calls) :
            Fails(call) => message_history' = message_history]_vars
    /\ [][\A t \in 1..MaxTurns :
            (UserStored(message_history, t) /\ ~UserStored(message_history', t))
               => message_history' = <<SystemEntry>>]_vars
    /\ [][\A call \in BagToSet(calls) :
            (ProcessMessageReturns(call) /\ returned'.value = "error string") =>
               /\ call.ai_message = NoText => ~ReplyStored(message_history', call.turn)
               /\ ReplyStored(message_history', call.turn) =>
                     /\ call.ai_message = AiMessage(call.turn)
                     /\ call.pc = "exit_connection"]_vars
    /\ [][\A t \in 1..MaxTurns :
            (/\ \E c \in CallOf(calls, t) : c.pc = "load_tools"
             /\ \E c \in CallOf(calls', t) : c.pc = "agent")
                => \A c \in CallOf(calls', t), u \in 1..MaxTurns :
                      (/\ u < t
                       /\ CallOf(calls, u) = {}
                       /\ UserStored(message_history, u)
                       /\ ~ReplyStored(message_history, u))
                         => \E i \in 1..Len(c.messages) :
                               /\ c.messages[i].type = "HumanMessage"
                               /\ c.messages[i].content.text = <<"user", u>>]_vars

\* the first call failed and returned; the second call, alone, has sent the
\* model the system prompt and both user messages
C26_Witness ==
    /\ message_history =
          <<SystemEntry, UserEntry(UserMessage(1, 1)), UserEntry(UserMessage(2, 1))>>
    /\ CallOf(calls, 1) = {}
    /\ \E c \in CallOf(calls, 2) :
          /\ c.pc = "agent"
          /\ Len(c.messages) = 3
          /\ c.messages[2].type = "HumanMessage"
          /\ c.messages[2].content.text = <<"user", 1>>

(***************************************************************************)
(* C27                                                                     *)
(***************************************************************************)
\* C27: reset_conversation neither cancels nor fences a suspended call. The
\* step that cuts the history leaves every suspended coroutine where it is and
\* returns nothing to its caller; every suspended coroutine can always take its
\* next step; and a process_message call whose graph ends with an answer
\* appends that answer to the history as it is then, also when a reset has
\* removed the call's user message, so that the reply is the entry right after
\* the system prompt.
C27_ResetDoesNotFence ==
    /\ [][Len(message_history') < Len(message_history) =>
             /\ message_history' = <<SystemEntry>>
             /\ calls' = calls
             /\ returned' = returned
             /\ connections' = connections /\ sessions' = sessions]_vars
    /\ [](\A call \in BagToSet(calls) : ENABLED CallStep(call))
    /\ [][\A t \in 1..MaxTurns :
            (/\ \E c \in CallOf(calls, t) : c.pc = "agent"
             /\ \E c \in CallOf(calls', t) : c.pc = "exit_session" /\ ~c.failed)
                => /\ message_history' =
                          Append(message_history, AssistantEntry(AiMessage(t)))
                   /\ (message_history = <<SystemEntry>>) =>
                          message_history' =
                             <<SystemEntry, AssistantEntry(AiMessage(t))>>]_vars

\* a reset ran while the only call was suspended; the call went on, stored its
\* reply in the reset history and returned it
C27_Witness ==
    /\ turns = 1
    /\ calls = EmptyBag
    /\ returned = [raised |-> FALSE, value |-> "answer", answered |-> TRUE,
                   content |-> AiMessage(1)]
    /\ message_history = <<SystemEntry, AssistantEntry(AiMessage(1))>>

=========================================================================
